---- MODULE Spec2Model ----
(***************************************************************************)
(* Model of tools/elephant/image/utils.py: the range-token parser          *)
(* (_parse_slice), the selector (select_data) and the block assembler      *)
(* (prepare_data), over Python lists holding the segments of a neo Block   *)
(* and the analog signals / spike trains of each segment; and the loader   *)
(* (load_data) and the saver (save_data), over files of named blocks.      *)
(*                                                                         *)
(* Python strings are sequences of one-character strings, so that          *)
(* str.split, int() and the substring test of line 126 are computed and    *)
(* not assumed.  Python values that may be None, an int or a str are       *)
(* records of one shape; an optional int is <<>> (None) or <<n>>.          *)
(***************************************************************************)
EXTENDS Integers, Sequences, FiniteSets, TLC

VARIABLES heap, call, result, fs

vars == <<heap, call, result, fs>>

(***************************************************************************)
(* Bounds of the model.                                                    *)
(***************************************************************************)
\* most colon-separated components of a generated range token
MaxParts == 4
\* longest list a parsed token is applied to in the parser's properties
MaxLen == 3
\* most segments of a block
MaxSegs == 2
\* the series (analog signals and spike trains together) of a loaded segment,
\* and the largest index a selector names
MaxSeries == 2
\* block objects the heap can hold
MaxBlocks == 2
\* most blocks a file is let grow to
MaxFileBlocks == 3
\* most blocks of a file that is loaded
MaxStored == 2
\* most IO objects left open
MaxOpen == 2

(***************************************************************************)
(* Python values.                                                          *)
(***************************************************************************)
NoneV == [t |-> "none", i |-> 0, s |-> <<>>]

IntV(n) == [t |-> "int", i |-> n, s |-> <<>>]

StrV(chars) == [t |-> "str", i |-> 0, s |-> chars]

\* str(n) for an int n >= 0
RECURSIVE Digits(_)
Digits(n) ==
    LET d == <<"0", "1", "2", "3", "4", "5", "6", "7", "8", "9">>[(n % 10) + 1]
    IN IF n < 10 THEN <<d>> ELSE Digits(n \div 10) \o <<d>>

\* str(n) for any int
StrOfInt(n) == IF n < 0 THEN <<"-">> \o Digits(-n) ELSE Digits(n)

IsDigit(c) == c \in {"0", "1", "2", "3", "4", "5", "6", "7", "8", "9"}

DigitVal(c) ==
    CASE c = "0" -> 0 [] c = "1" -> 1 [] c = "2" -> 2 [] c = "3" -> 3
      [] c = "4" -> 4 [] c = "5" -> 5 [] c = "6" -> 6 [] c = "7" -> 7
      [] c = "8" -> 8 [] c = "9" -> 9

\* whether int(s) succeeds: an optional sign and then one or more digits
\* (the alphabet of the model holds no whitespace and no underscore)
PyIntOk(s) ==
    LET body == IF Len(s) > 0 /\ s[1] \in {"-", "+"} THEN Tail(s) ELSE s
    IN Len(body) > 0 /\ \A k \in 1..Len(body) : IsDigit(body[k])

RECURSIVE DecValue(_)
DecValue(ds) ==
    IF Len(ds) = 0 THEN 0
    ELSE 10 * DecValue(SubSeq(ds, 1, Len(ds) - 1)) + DigitVal(ds[Len(ds)])

\* int(s), for s with PyIntOk(s)
PyInt(s) ==
    IF s[1] = "-" THEN 0 - DecValue(Tail(s))
    ELSE IF s[1] = "+" THEN DecValue(Tail(s))
    ELSE DecValue(s)

\* s.split(":")
RECURSIVE Split(_)
Split(s) ==
    IF \A k \in 1..Len(s) : s[k] # ":" THEN <<s>>
    ELSE LET i == CHOOSE k \in 1..Len(s) :
                     s[k] = ":" /\ \A j \in 1..(k - 1) : s[j] # ":"
         IN <<SubSeq(s, 1, i - 1)>> \o Split(SubSeq(s, i + 1, Len(s)))

\* needle in hay, for two strings
Contains(needle, hay) ==
    \E k \in 0..(Len(hay) - Len(needle)) :
        SubSeq(hay, k + 1, k + Len(needle)) = needle

(***************************************************************************)
(* _parse_slice.  Its outcome is an int, a slice, the argument returned    *)
(* unchanged ("other") or the ValueError of line 59.                       *)
(***************************************************************************)
AllStr == <<"a", "l", "l">>

\* an int token adjusted the way a stop is
ParsedIntAdjusted(n) ==
    [k |-> "int", i |-> n + 1, start |-> <<>>, stop |-> <<>>, step |-> <<>>]

ParsedInt(n) ==
    [k |-> "int", i |-> n, start |-> <<>>, stop |-> <<>>, step |-> <<>>]

\* a slice whose missing bounds are taken for 0
ParsedSliceZeroed(a, b, c) ==
    [k |-> "slice", i |-> 0, start |-> IF a = <<>> THEN <<0>> ELSE a,
     stop |-> IF b = <<>> THEN <<0>> ELSE b, step |-> c]

ParsedSlice(a, b, c) ==
    [k |-> "slice", i |-> 0, start |-> a, stop |-> b, step |-> c]

ParsedOther ==
    [k |-> "other", i |-> 0, start |-> <<>>, stop |-> <<>>, step |-> <<>>]

ParsedError ==
    [k |-> "ValueError", i |-> 0, start |-> <<>>, stop |-> <<>>, step |-> <<>>]

\* "all" left as it is
NormaliseNothing(str) == str

\* lines 49-50: "all" is read as ":"
Normalise(str) == IF str = AllStr THEN <<":">> ELSE str

\* the components int() is applied to: parts[0], parts[1], parts[2]
ParsedParts(parts) == SubSeq(parts, 1, IF Len(parts) < 3 THEN Len(parts) ELSE 3)

\* the stop taken as written, exclusive
StopExclusive(part) == <<PyInt(part)>>

\* 1 is added to a stop that is present and non-empty
StopOf(part) == <<PyInt(part) + 1>>

ParseSlice(tok) ==
    IF tok.t = "int" THEN ParsedInt(tok.i)
    ELSE IF tok.t = "str" THEN
        LET str == Normalise(tok.s)
            parts == Split(str)
            read == ParsedParts(parts)
        IN IF \E k \in 1..Len(read) : read[k] # <<>> /\ ~PyIntOk(read[k])
           THEN ParsedError
           ELSE ParsedSlice(
                    IF parts[1] # <<>> THEN <<PyInt(parts[1])>> ELSE <<>>,
                    IF Len(parts) > 1 /\ parts[2] # <<>>
                        THEN StopOf(parts[2]) ELSE <<>>,
                    IF Len(parts) > 2 /\ parts[3] # <<>>
                        THEN <<PyInt(parts[3])>> ELSE <<>>)
    ELSE ParsedOther

(***************************************************************************)
(* Python list indexing, list[index], for an index that _parse_slice       *)
(* produced.  The outcome is one element ("item"), a list ("list") or the  *)
(* exception the list raises.                                              *)
(***************************************************************************)
Got(kind, items) == [k |-> kind, items |-> items]

\* slice.indices(n): the clamped start and stop, for a step # 0
SliceStart(sl, n, step) ==
    LET lower == IF step < 0 THEN 0 - 1 ELSE 0
        upper == IF step < 0 THEN n - 1 ELSE n
    IN IF sl.start = <<>> THEN (IF step < 0 THEN upper ELSE lower)
       ELSE IF sl.start[1] < 0
            THEN (IF sl.start[1] + n < lower THEN lower ELSE sl.start[1] + n)
            ELSE (IF sl.start[1] > upper THEN upper ELSE sl.start[1])

\* a stop beyond the list taken for its last position
SliceStopShort(sl, n, step) ==
    IF sl.stop = <<>> THEN (IF step < 0 THEN 0 - 1 ELSE n)
    ELSE IF sl.stop[1] < 0 THEN (IF sl.stop[1] + n < 0 THEN 0 ELSE sl.stop[1] + n)
    ELSE IF sl.stop[1] > n THEN n - 1
    ELSE sl.stop[1]

SliceStop(sl, n, step) ==
    LET lower == IF step < 0 THEN 0 - 1 ELSE 0
        upper == IF step < 0 THEN n - 1 ELSE n
    IN IF sl.stop = <<>> THEN (IF step < 0 THEN lower ELSE upper)
       ELSE IF sl.stop[1] < 0
            THEN (IF sl.stop[1] + n < lower THEN lower ELSE sl.stop[1] + n)
            ELSE (IF sl.stop[1] > upper THEN upper ELSE sl.stop[1])

\* the elements at positions i, i + step, ... short of stop (0-based)
RECURSIVE Walk(_, _, _, _)
Walk(list, i, stop, step) ==
    IF (step > 0 /\ i < stop) \/ (step < 0 /\ i > stop)
    THEN <<list[i + 1]>> \o Walk(list, i + step, stop, step)
    ELSE <<>>

PyGetItem(list, index) ==
    LET n == Len(list) IN
    CASE index.k = "int" ->
            IF index.i >= 0 - n /\ index.i < n
            THEN Got("item", <<list[(IF index.i < 0 THEN index.i + n ELSE index.i) + 1]>>)
            ELSE Got("IndexError", <<>>)
      [] index.k = "slice" ->
            LET step == IF index.step = <<>> THEN 1 ELSE index.step[1]
            IN IF step = 0 THEN Got("ValueError", <<>>)
               ELSE Got("list", Walk(list, SliceStart(index, n, step),
                                     SliceStop(index, n, step), step))
      [] OTHER -> Got("TypeError", <<>>)

(***************************************************************************)
(* neo objects.  An AnalogSignal or SpikeTrain is named by its kind and    *)
(* the place it was created at; a Segment is its two series lists; a Block *)
(* is a heap cell holding its list of segments.                            *)
(***************************************************************************)
Series(kind, seg, idx) == [kind |-> kind, seg |-> seg, idx |-> idx]

\* the series list of n objects that segment number seg was loaded with
RECURSIVE SeriesList(_, _, _)
SeriesList(kind, seg, n) ==
    IF n = 0 THEN <<>>
    ELSE SeriesList(kind, seg, n - 1) \o <<Series(kind, seg, n - 1)>>

Segment(as, st) == [analogsignals |-> as, spiketrains |-> st]

Block(segs) == [alloc |-> TRUE, segments |-> segs]

NoBlock == [alloc |-> FALSE, segments |-> <<>>]

(***************************************************************************)
(* The outcome of a call: a return value or a raised exception.            *)
(***************************************************************************)
NoResult ==
    [kind |-> "none", exc |-> "", msg |-> "", list |-> <<>>, ref |-> 0,
     parsed |-> ParsedOther]

Returned(list) == [NoResult EXCEPT !.kind = "return", !.list = list]

ReturnedRef(ref) == [NoResult EXCEPT !.kind = "return", !.ref = ref]

ReturnedParsed(p) == [NoResult EXCEPT !.kind = "return", !.parsed = p]

Raised(exc, msg) == [NoResult EXCEPT !.kind = "raise", !.exc = exc, !.msg = msg]

\* an element of a returned list: one object, or a list of objects
One(obj) == [isList |-> FALSE, items |-> <<obj>>]

Nested(objs) == [isList |-> TRUE, items |-> objs]

RECURSIVE Ones(_)
Ones(objs) ==
    IF objs = <<>> THEN <<>> ELSE <<One(Head(objs))>> \o Ones(Tail(objs))

(***************************************************************************)
(* select_data                                                             *)
(***************************************************************************)
\* str(e) of the IndexError a Python list raises
IndexErrorText ==
    <<"l", "i", "s", "t", " ", "i", "n", "d", "e", "x", " ", "o", "u", "t",
      " ", "o", "f", " ", "r", "a", "n", "g", "e">>

SpiketrainsWord == <<"s", "p", "i", "k", "e", "t", "r", "a", "i", "n", "s">>

AnalogsignalsWord ==
    <<"a", "n", "a", "l", "o", "g", "s", "i", "g", "n", "a", "l", "s">>

\* an IndexError swallowed: the call returns what it has, an empty list
OutOfRangeIgnored(text) == Returned(<<>>)

\* the except clause, lines 125-137
OutOfRange(text) ==
    IF Contains(SpiketrainsWord, text)
    THEN Raised("ValueError", "Provided spike_train_index is out of range")
    ELSE IF Contains(AnalogsignalsWord, text)
    THEN Raised("ValueError", "Provided analog_signal_index is out of range")
    ELSE Raised("ValueError", "Provided segment_index is out of range")

\* what an exception raised inside the try block leaves select_data with
Propagate(exc) ==
    CASE exc = "IndexError" -> OutOfRange(IndexErrorText)
      [] exc = "InvalidSlice" -> Raised("ValueError", "Invalid slice string")
      [] exc = "ValueError" -> Raised("ValueError", "slice step cannot be zero")
      [] OTHER -> Raised("TypeError", "list indices must be integers or slices")

\* list[_parse_slice(tok)]
Index(list, tok) ==
    LET p == ParseSlice(tok)
    IN IF p.k = "ValueError" THEN Got("InvalidSlice", <<>>) ELSE PyGetItem(list, p)

\* the two series lists taken for one another
SeriesOfOther(segment, field) ==
    IF field = "spiketrains" THEN segment.analogsignals ELSE segment.spiketrains

SeriesOf(segment, field) ==
    IF field = "spiketrains" THEN segment.spiketrains ELSE segment.analogsignals

\* [segment.<field>[_parse_slice(tok)] for segment in segments]
RECURSIVE Comprehension(_, _, _)
Comprehension(segments, field, tok) ==
    IF segments = <<>> THEN Returned(<<>>)
    ELSE LET g == Index(SeriesOf(Head(segments), field), tok)
         IN IF g.k \notin {"item", "list"} THEN Propagate(g.k)
            ELSE LET rest == Comprehension(Tail(segments), field, tok)
                     elem == IF g.k = "item" THEN One(g.items[1])
                             ELSE Nested(g.items)
                 IN IF rest.kind = "raise" THEN rest
                    ELSE Returned(<<elem>> \o rest.list)

\* two indices given are refused like none given
BranchExactlyOne(spike_train_index, analog_signal_index) ==
    IF spike_train_index.t # "none" /\ analog_signal_index.t # "none" THEN "neither"
    ELSE IF spike_train_index.t # "none" THEN "spiketrains"
    ELSE IF analog_signal_index.t # "none" THEN "analogsignals"
    ELSE "neither"

\* the branch the if / elif / else of lines 102, 110 and 123 takes
Branch(spike_train_index, analog_signal_index) ==
    IF spike_train_index.t # "none" THEN "spiketrains"
    ELSE IF analog_signal_index.t # "none" THEN "analogsignals"
    ELSE "neither"

\* a block whose segments have been taken out of it
BlockEmptied(block) == [block EXCEPT !.segments = <<>>]

\* lines 101-137 index and slice the lists of the block and assign to none
\* of them: the block after the call
BlockAfterSelect(block) == block

SelectData(block, segment_index, spike_train_index, analog_signal_index) ==
    IF Branch(spike_train_index, analog_signal_index) = "spiketrains" THEN
        LET g == Index(block.segments, segment_index)
        IN IF g.k \notin {"item", "list"} THEN Propagate(g.k)
           ELSE Comprehension(g.items, "spiketrains", spike_train_index)
    ELSE IF Branch(spike_train_index, analog_signal_index) = "analogsignals" THEN
        LET g == Index(block.segments, segment_index)
        IN IF g.k \notin {"item", "list"} THEN Propagate(g.k)
           ELSE IF g.k = "item" THEN
               LET a == Index(SeriesOf(g.items[1], "analogsignals"),
                              analog_signal_index)
               IN IF a.k \notin {"item", "list"} THEN Propagate(a.k)
                  ELSE IF a.k = "item" THEN Returned(<<One(a.items[1])>>)
                  ELSE Returned(Ones(a.items))
           ELSE Comprehension(g.items, "analogsignals", analog_signal_index)
    ELSE Raised("ValueError", "spike_train or analog_signal index not provided")

(***************************************************************************)
(* prepare_data.  old_block is a heap reference, 0 for None; analog_signal *)
(* and spike_train are optional lists; action is a string, NoneAction for  *)
(* None.  The outcome is the heap after the call and the call's result.    *)
(***************************************************************************)
BlockRefs == 1..MaxBlocks

NoneAction == "<None>"

NoneList == [isNone |-> TRUE, items |-> <<>>]

ListOf(items) == [isNone |-> FALSE, items |-> items]

\* the truth value of an optional list
Truthy(l) == ~l.isNone /\ Len(l.items) > 0

Outcome(h, r) == [heap |-> h, result |-> r]

\* the block 'new' would return if it reused a loaded block
ReusedRef(h) == CHOOSE r \in BlockRefs : h[r].alloc

\* the heap cell neo.Block() is created in
FreshRef(h) == CHOOSE r \in BlockRefs : ~h[r].alloc /\ \A q \in 1..(r - 1) : h[q].alloc

\* block.segments[0].<field>.extend of copies of the items, each copy an
\* object of its own
ExtendFirstCopied(segments, field, items) ==
    LET copies == [k \in 1..Len(items) |-> [items[k] EXCEPT !.seg = 0, !.idx = @ + MaxSeries]]
    IN IF segments = <<>> THEN Got("IndexError", segments)
       ELSE Got("ok",
                [segments EXCEPT ![1] =
                    IF field = "spiketrains"
                    THEN [@ EXCEPT !.spiketrains = @ \o copies]
                    ELSE [@ EXCEPT !.analogsignals = @ \o copies]])

\* block.segments[0].<field>.extend(items): the segment list after it, or the
\* IndexError of block.segments[0]
ExtendFirst(segments, field, items) ==
    LET g == PyGetItem(segments, ParsedInt(0))
    IN IF g.k # "item" THEN Got(g.k, segments)
       ELSE Got("ok",
                [segments EXCEPT ![1] =
                    IF field = "spiketrains"
                    THEN [@ EXCEPT !.spiketrains = @ \o items]
                    ELSE [@ EXCEPT !.analogsignals = @ \o items]])

\* lines 413-416 and 420-423: the two guarded extend calls on segments[0]
ExtendBoth(segments, analog_signal, spike_train) ==
    LET a == IF Truthy(analog_signal)
             THEN ExtendFirst(segments, "analogsignals", analog_signal.items)
             ELSE Got("ok", segments)
    IN IF a.k # "ok" THEN a
       ELSE IF Truthy(spike_train)
            THEN ExtendFirst(a.items, "spiketrains", spike_train.items)
            ELSE a

\* the actions of save_data accepted along with those of prepare_data
ValidActionsOfBoth == {"new", "replace", "add", "update"}

\* line 402
ValidPrepareActions == {"new", "replace", "add"}

PrepareData(h, old_block, analog_signal, spike_train, action) ==
    IF action \notin ValidPrepareActions
    THEN Outcome(h, Raised("ValueError", "Invalid action"))
    ELSE IF ~Truthy(analog_signal) /\ ~Truthy(spike_train)
    THEN Outcome(h, Raised("ValueError", "At least one data element must be provided"))
    ELSE IF action = "new" THEN
        LET new_block == FreshRef(h)
            e == ExtendBoth(<<Segment(<<>>, <<>>)>>, analog_signal, spike_train)
            h1 == [h EXCEPT ![new_block] = Block(e.items)]
        IN IF e.k # "ok" THEN Outcome(h1, Raised(e.k, "list index out of range"))
           ELSE Outcome(h1, ReturnedRef(new_block))
    ELSE IF action = "replace" THEN
        IF old_block = 0
        THEN Outcome(h, Raised("AttributeError", "NoneType has no attribute segments"))
        ELSE LET e == ExtendBoth(<<>>, analog_signal, spike_train)
                 h1 == [h EXCEPT ![old_block].segments = e.items]
             IN IF e.k # "ok" THEN Outcome(h1, Raised(e.k, "list index out of range"))
                ELSE Outcome(h1, ReturnedRef(old_block))
    ELSE
        IF old_block = 0
        THEN Outcome(h, Raised("AttributeError", "NoneType has no attribute segments"))
        ELSE IF Truthy(analog_signal)
        THEN Outcome(h, Raised("AttributeError", "list has no attribute analogsignals"))
        ELSE Outcome(h, Raised("AttributeError", "list has no attribute spiketrains"))

(***************************************************************************)
(* Files.  A path is a file name with its suffix, the suffix a Python      *)
(* string; the file system maps each path to the file stored there, a file *)
(* being the container format it was written in and the blocks it holds,   *)
(* and counts the IO objects that hold a file open.                        *)
(***************************************************************************)
Path(suffix) == [name |-> "out", suffix |-> suffix]

\* the names files are given: .nix, .NIX, .nwb, .Nwb, .data and no suffix
Suffixes ==
    { <<".", "n", "i", "x">>, <<".", "N", "I", "X">>,
      <<".", "n", "w", "b">>, <<".", "N", "w", "b">>,
      <<".", "d", "a", "t", "a">>, <<>> }

Paths == {Path(s) : s \in Suffixes}

\* a block as stored in a file: its name and its segments
FileBlock(name, segments) == [name |-> name, segments |-> segments]

\* the name of a block that was given none
NoName == "<None>"

File(format, blocks) == [exists |-> TRUE, format |-> format, blocks |-> blocks]

NoFile == [exists |-> FALSE, format |-> "", blocks |-> <<>>]

\* no file exists and no IO object is open
NoFiles == [files |-> [p \in Paths |-> NoFile], open |-> 0]

\* str.lower() on the letters of the suffixes
LowerChar(c) ==
    IF c = "N" THEN "n" ELSE IF c = "I" THEN "i" ELSE IF c = "X" THEN "x"
    ELSE IF c = "W" THEN "w" ELSE IF c = "B" THEN "b" ELSE c

Lower(s) == [k \in 1..Len(s) |-> LowerChar(s[k])]

(***************************************************************************)
(* save_data.  data is an AnalogSignal, a SpikeTrain, a Segment or (as a   *)
(* heap reference) a Block; output_file is a Path; output_format and       *)
(* action are strings, NoneFormat and NoneAction for None.  The writers    *)
(* are neo.NixIO and neo.NWBIO, each used as a context manager, so the     *)
(* file is closed when the call ends.                                      *)
(***************************************************************************)
NoneFormat == "<None>"

NoSeries == Series("", 0, 0)

SignalData(series) ==
    [type |-> series.kind, ref |-> 0, segment |-> Segment(<<>>, <<>>),
     series |-> series]

SegmentData(segment) ==
    [type |-> "Segment", ref |-> 0, segment |-> segment, series |-> NoSeries]

BlockData(ref) ==
    [type |-> "Block", ref |-> ref, segment |-> Segment(<<>>, <<>>),
     series |-> NoSeries]

SaveOutcome(h, f, r) == [heap |-> h, fs |-> f, result |-> r]

\* the truth value of an optional string
TruthyStr(s) == s # NoneFormat /\ s # ""

\* line 273
ValidSaveActions == {"new", "replace", "update"}

\* line 274
ValidOutputFormats == {"NixIO", "NWBIO"}

\* the suffix compared as it is spelled
InferFormatExact(output_file) ==
    IF output_file.suffix = <<".", "n", "i", "x">> THEN "NixIO"
    ELSE IF output_file.suffix = <<".", "n", "w", "b">> THEN "NWBIO"
    ELSE ""

\* lines 282-290: the format the suffix stands for, "" when it stands for none
InferFormat(output_file) ==
    LET ext == Lower(output_file.suffix)
    IN IF ext = <<".", "n", "i", "x">> THEN "NixIO"
       ELSE IF ext = <<".", "n", "w", "b">> THEN "NWBIO"
       ELSE ""

\* lines 292-297
ExistenceError(action, exists) ==
    \/ action = "new" /\ exists
    \/ action = "replace" /\ ~exists
    \/ action = "update" /\ ~exists

\* a wrapping that also puts a Block inside a block it creates
SavedBlockAlwaysWrapped(h, data) ==
    LET saved_block == CHOOSE r \in BlockRefs : ~h[r].alloc
        segments == IF data.type = "AnalogSignal" THEN <<Segment(<<data.series>>, <<>>)>>
                    ELSE IF data.type = "SpikeTrain" THEN <<Segment(<<>>, <<data.series>>)>>
                    ELSE IF data.type = "Block" THEN h[data.ref].segments
                    ELSE <<data.segment>>
    IN [heap |-> [h EXCEPT ![saved_block] = Block(segments)], ref |-> saved_block]

\* lines 299-311: the heap after wrapping, and the block that is written
SavedBlock(h, data) ==
    IF data.type \in {"AnalogSignal", "SpikeTrain"} THEN
        LET saved_block == FreshRef(h)
            segment == IF data.type = "AnalogSignal"
                       THEN Segment(<<data.series>>, <<>>)
                       ELSE Segment(<<>>, <<data.series>>)
        IN [heap |-> [h EXCEPT ![saved_block] = Block(<<segment>>)],
            ref |-> saved_block]
    ELSE IF data.type = "Block" THEN [heap |-> h, ref |-> data.ref]
    ELSE LET saved_block == FreshRef(h)
         IN [heap |-> [h EXCEPT ![saved_block] = Block(<<data.segment>>)],
             ref |-> saved_block]

\* neo.NixIO(file, mode) ... write_block(block): "ow" creates the file or
\* empties an existing one, "rw" opens an existing NIX file as it is
NixWrite(file, mode, block) ==
    IF mode = "ow" THEN [k |-> "ok", file |-> File("NixIO", <<block>>)]
    ELSE IF file.exists /\ file.format = "NixIO"
    THEN [k |-> "ok", file |-> File("NixIO", Append(file.blocks, block))]
    ELSE [k |-> "error", file |-> file]

\* neo.NWBIO(file, mode) ... write_block(block): "w" creates the file anew,
\* any other mode is not one NWBIO writes in
NWBWrite(file, mode, block) ==
    IF mode = "w" THEN [k |-> "ok", file |-> File("NWBIO", <<block>>)]
    ELSE [k |-> "error", file |-> file]

\* the None a call returns that returns nothing
ReturnedNone == ReturnedRef(0)

\* lines 292-297: the text of the error
ExistenceText(action) ==
    IF action = "new" THEN "File already exists and action is 'new'"
    ELSE IF action = "replace" THEN "File does not exist and action is 'replace'"
    ELSE "File does not exist and action is 'update'"

\* lines 281-290: the format written in when the call is not rejected
OutputFormat(output_file, output_format) ==
    IF output_format = NoneFormat THEN InferFormat(output_file)
    ELSE output_format

SaveData(h, f, data, output_file, output_format, action) ==
    IF action \notin ValidSaveActions
    THEN SaveOutcome(h, f, Raised("ValueError", "Invalid action"))
    ELSE IF TruthyStr(output_format) /\ output_format \notin ValidOutputFormats
    THEN SaveOutcome(h, f, Raised("ValueError", "Invalid output format"))
    ELSE IF output_format = NoneFormat /\ InferFormat(output_file) = ""
    THEN SaveOutcome(h, f, Raised("ValueError", "Could not infer output format"))
    ELSE IF ExistenceError(action, f.files[output_file].exists)
    THEN SaveOutcome(h, f, Raised("ValueError", ExistenceText(action)))
    ELSE
        LET format == OutputFormat(output_file, output_format)
            file == f.files[output_file]
            w == SavedBlock(h, data)
            block == FileBlock(NoName, w.heap[w.ref].segments)
            out == IF format = "NixIO"
                   THEN NixWrite(file,
                                 IF action \in {"replace", "new"} THEN "ow" ELSE "rw",
                                 block)
                   ELSE IF format = "NWBIO"
                   THEN NWBWrite(file,
                                 IF action \in {"replace", "new"} THEN "w" ELSE "?",
                                 block)
                   ELSE [k |-> "none", file |-> file]
        IN IF out.k = "error"
           THEN SaveOutcome(w.heap, f, Raised("Exception", "the writer failed"))
           ELSE SaveOutcome(w.heap, [f EXCEPT !.files[output_file] = out.file],
                            ReturnedNone)

(***************************************************************************)
(* load_data.  input_file is a Path; input_format is a string, NoneFormat  *)
(* for None; block_index is None or an int; block_name is a string, NoName *)
(* for None.  The IO classes are those of neo.io: a NixIO is opened read   *)
(* only when it is constructed and fails with InvalidFile on a file that   *)
(* is not a NIX file; an NWBIO opens the file when it reads, and its read  *)
(* of a file that is not an NWB file fails with TypeError.  load_data      *)
(* closes no IO object it has constructed.                                 *)
(***************************************************************************)
LoadOutcome(f, r) == [fs |-> f, result |-> r]

\* the names neo.io has an IO class for
IOClasses == {"NixIO", "NWBIO"}

\* neo.list_candidate_ios(input_file): the IO classes registered for the
\* suffix of the file
CandidateIOs(input_file) ==
    LET ext == Lower(input_file.suffix)
    IN IF ext = <<".", "n", "i", "x">> THEN <<"NixIO">>
       ELSE IF ext = <<".", "n", "w", "b">> THEN <<"NWBIO">>
       ELSE <<>>

\* io_class(input_file, *flags): whether it succeeds, and the files it opens
Construct(io_class, file) ==
    IF io_class = "NixIO"
    THEN IF file.format = "NixIO" THEN [k |-> "ok", open |-> 1]
         ELSE [k |-> "InvalidFile", open |-> 0]
    ELSE [k |-> "ok", open |-> 0]

\* io.read(): the blocks of the file in file order, and the files it opens
ReadAll(io_class, file) ==
    IF io_class = "NixIO" THEN [k |-> "ok", blocks |-> file.blocks, open |-> 0]
    ELSE IF file.format = "NWBIO"
    THEN [k |-> "ok", blocks |-> file.blocks, open |-> 1]
    ELSE [k |-> "TypeError", blocks |-> <<>>, open |-> 0]

\* a block, and a list of blocks, as the value a call returns
ReturnedBlock(block) == Returned(<<One(block)>>)

ReturnedBlocks(blocks) == Returned(<<Nested(blocks)>>)

\* the truth value of an optional int
TruthyInt(v) == v.t = "int" /\ v.i # 0

\* the last block whose name is block_name
LastNamedBlock(blocks, block_name) ==
    LET named == {k \in 1..Len(blocks) : blocks[k].name = block_name}
    IN IF named = {} THEN <<>>
       ELSE <<blocks[CHOOSE k \in named : \A j \in named : j <= k]>>

\* lines 215-217: the blocks whose name is block_name, in file order
RECURSIVE NamedBlocks(_, _)
NamedBlocks(blocks, block_name) ==
    IF blocks = <<>> THEN <<>>
    ELSE IF Head(blocks).name = block_name
    THEN <<Head(blocks)>> \o NamedBlocks(Tail(blocks), block_name)
    ELSE NamedBlocks(Tail(blocks), block_name)

MismatchText == "input_file and input_format do not match"

\* lines 202-232, once the IO object io_class has been constructed
LoadBlocks(f, file, io_class, block_index, block_name) ==
    LET rd == ReadAll(io_class, file)
        f1 == [f EXCEPT !.open = @ + rd.open]
    IN IF TruthyInt(block_index) /\ TruthyStr(block_name)
       THEN LoadOutcome(f, Raised("ValueError",
                "Can not load by name and index simultaneously"))
       ELSE IF rd.k = "TypeError"
       THEN LoadOutcome(f1, Raised("ValueError", MismatchText))
       ELSE IF block_index.t # "none" THEN
           LET g == PyGetItem(rd.blocks, ParsedInt(block_index.i))
           IN IF g.k = "item" THEN LoadOutcome(f1, ReturnedBlock(g.items[1]))
              ELSE LoadOutcome(f1, Raised("ValueError", "block_index is not valid"))
       ELSE IF block_name # NoName THEN
           LET named == NamedBlocks(rd.blocks, block_name)
           IN IF Len(named) = 0
              THEN LoadOutcome(f1, Raised("ValueError",
                       "No block with block_name found"))
              ELSE LoadOutcome(f1, ReturnedBlock(named[1]))
       ELSE LoadOutcome(f1, ReturnedBlocks(rd.blocks))

LoadData(f, input_file, input_format, block_index, block_name) ==
    LET file == f.files[input_file]
        candidate_io == CandidateIOs(input_file)
    IN IF input_format = NoneFormat THEN
           IF Len(candidate_io) = 0
           THEN LoadOutcome(f, Raised("ValueError",
                    "Please specify a valid input format"))
           ELSE LET io == Construct(candidate_io[1], file)
                IN IF io.k # "ok"
                   THEN LoadOutcome(f, Raised(io.k, "not a NIX file"))
                   ELSE LoadBlocks([f EXCEPT !.open = @ + io.open], file,
                                   candidate_io[1], block_index, block_name)
       ELSE IF input_format \notin IOClasses
       THEN LoadOutcome(f, Raised("ValueError",
                "Input_format is not supported by neo"))
       ELSE LET io == Construct(input_format, file)
            IN IF io.k # "ok"
               THEN LoadOutcome(f, Raised("ValueError", MismatchText))
               ELSE LoadBlocks([f EXCEPT !.open = @ + io.open], file,
                               input_format, block_index, block_name)

(***************************************************************************)
(* The adapter scripts.  Each builds an argparse parser, parses the        *)
(* command line with parse_known_args and unpacks the namespace into the   *)
(* wrapped function, one keyword argument for each name of the namespace.  *)
(***************************************************************************)
Scripts == {"butterworth_filter_cli", "wavelet_transform_cli"}

\* the destinations of the add_argument calls
ParserNames(script) ==
    IF script = "butterworth_filter_cli"
    THEN {"input_file", "input_format", "output_file", "output_format",
          "highpass_frequency", "lowpass_frequency", "order",
          "filter_function", "block_index", "segment_index",
          "analog_signal_index", "action"}
    ELSE {"input_file", "input_format", "output_file", "block_index",
          "block_name", "segment_index", "analog_signal_index",
          "visualization_plots", "frequency", "n_cycles",
          "sampling_frequency", "zero_padding", "start_time", "stop_time"}

\* the arguments added with required=True
RequiredNames(script) ==
    IF script = "butterworth_filter_cli"
    THEN {"input_file", "output_file", "output_format", "order",
          "filter_function", "action"}
    ELSE {"input_file", "output_file", "frequency"}

\* the parameters of the wrapped function, none of which has a default
FunctionParams(script) ==
    IF script = "butterworth_filter_cli"
    THEN {"input_file", "input_format", "output_file", "output_format",
          "highpass_frequency", "lowpass_frequency", "order",
          "filter_function", "block_index", "block_name", "segment_index",
          "analog_signal_index", "action"}
    ELSE {"input_file", "input_format", "output_file", "block_index",
          "block_name", "segment_index", "analog_signal_index",
          "visualization_plots", "frequency", "n_cycles",
          "sampling_frequency", "zero_padding", "start_time", "stop_time"}

\* a flag no parser has
UnknownFlag == "extra"

\* the function body has been entered
Reached == [NoResult EXCEPT !.kind = "reached"]

\* CLI.parse_known_args(): the names of the namespace (every destination,
\* given or defaulted), unknown flags set aside; none when a required
\* argument is missing and argparse exits
KnownArgs(script, given) ==
    IF RequiredNames(script) \subseteq given
    THEN [k |-> "ok", names |-> ParserNames(script)]
    ELSE [k |-> "SystemExit", names |-> {}]

\* the call of the wrapped function with the namespace as its keyword
\* arguments: the keywords must be the parameters
Unpack(script, names) ==
    IF FunctionParams(script) \ names # {}
    THEN Raised("TypeError", "missing required positional argument")
    ELSE IF names \ FunctionParams(script) # {}
    THEN Raised("TypeError", "got an unexpected keyword argument")
    ELSE Reached

\* the __main__ block of a script run with the given flags
RunScript(script, given) ==
    LET args == KnownArgs(script, given)
    IN IF args.k # "ok"
       THEN Raised("SystemExit", "the following arguments are required")
       ELSE Unpack(script, args.names)

(***************************************************************************)
(* Inputs.                                                                 *)
(***************************************************************************)
\* sep.join(parts)
RECURSIVE Join(_)
Join(parts) ==
    IF Len(parts) = 1 THEN parts[1]
    ELSE parts[1] \o <<":">> \o Join(Tail(parts))

\* the components range tokens are generated from
Components ==
    {<<>>, <<"0">>, <<"1">>, <<"2">>, <<"-", "1">>, <<"1", "0">>, <<"x">>}

\* every token of one to MaxParts components, "all", the ints and None
ParseTokens ==
    {StrV(Join(parts)) : parts \in UNION {[1..n -> Components] : n \in 1..MaxParts}}
        \cup {StrV(AllStr), NoneV}
        \cup {IntV(n) : n \in (0 - 1)..MaxLen}

\* the "a:b" token Python formats from two ints
RangeToken(a, b) == StrV(StrOfInt(a) \o <<":">> \o StrOfInt(b))

\* the selectors select_data is called with
SelectTokens ==
    {IntV(n) : n \in (0 - 1)..MaxSeries}
        \cup {RangeToken(a, b) : a, b \in 0..MaxSeries}
        \cup {StrV(AllStr), StrV(<<"x">>)}

\* the analog_signal_index given along with a spike_train_index
BothTokens == {IntV(0), StrV(AllStr)}

\* <<spike_train_index, analog_signal_index>>: one of them, both, neither
SeriesSelectors ==
    {<<st, NoneV>> : st \in SelectTokens}
        \cup {<<NoneV, as>> : as \in SelectTokens}
        \cup (SelectTokens \X BothTokens)
        \cup {<<NoneV, NoneV>>}

\* a segment as loaded: segment number seg with a analog signals, s spike trains
LoadedSegment(seg, a, s) ==
    Segment(SeriesList("AnalogSignal", seg, a), SeriesList("SpikeTrain", seg, s))

\* the blocks of n segments, each holding MaxSeries series split between its
\* analog signals and its spike trains
BlocksOf(n) ==
    {Block([k \in 1..n |-> LoadedSegment(k - 1, as[k], MaxSeries - as[k])]) :
        as \in [1..n -> 0..MaxSeries]}

LoadedBlocks == UNION {BlocksOf(n) : n \in 0..MaxSegs}

EmptyHeap == [r \in BlockRefs |-> NoBlock]

(***************************************************************************)
(* The parser applied to a token.                                          *)
(***************************************************************************)
InitParse ==
    /\ heap = EmptyHeap
    /\ \E tok \in ParseTokens : call = [fn |-> "_parse_slice", slice_str |-> tok]
    /\ result = NoResult
    /\ fs = NoFiles

ParseSliceCall ==
    /\ call.fn = "_parse_slice"
    /\ result' = (LET p == ParseSlice(call.slice_str)
                  IN IF p.k = "ValueError"
                     THEN Raised("ValueError", "Invalid slice string")
                     ELSE ReturnedParsed(p))
    /\ UNCHANGED <<heap, call, fs>>

NextParse == ParseSliceCall

SpecParse == InitParse /\ [][NextParse]_vars

(***************************************************************************)
(* The selector applied to a loaded block.                                 *)
(***************************************************************************)
InitSelect ==
    /\ \E b \in LoadedBlocks : heap = [EmptyHeap EXCEPT ![1] = b]
    /\ \E seg \in SelectTokens, sel \in SeriesSelectors :
          call = [fn |-> "select_data", block |-> 1, segment_index |-> seg,
                  spike_train_index |-> sel[1], analog_signal_index |-> sel[2]]
    /\ result = NoResult
    /\ fs = NoFiles

SelectDataCall ==
    /\ call.fn = "select_data"
    /\ result' = SelectData(heap[call.block], call.segment_index,
                            call.spike_train_index, call.analog_signal_index)
    /\ heap' = [heap EXCEPT ![call.block] = BlockAfterSelect(@)]
    /\ UNCHANGED <<call, fs>>

NextSelect == SelectDataCall

SpecSelect == InitSelect /\ [][NextSelect]_vars

(***************************************************************************)
(* The assembler applied to an optional loaded block and new data.         *)
(***************************************************************************)
\* the lists of zero to MaxSeries objects a processing step produced, and None
NewLists(kind) ==
    {ListOf(SeriesList(kind, 0 - 1, n)) : n \in 0..MaxSeries} \cup {NoneList}

PrepareActions == {"new", "replace", "add", "update", "invalid", NoneAction}

InitPrepare ==
    /\ \E b \in LoadedBlocks : heap = [EmptyHeap EXCEPT ![1] = b]
    /\ \E old \in {0, 1}, as \in NewLists("AnalogSignal"),
          st \in NewLists("SpikeTrain"), act \in PrepareActions :
          call = [fn |-> "prepare_data", old_block |-> old, analog_signal |-> as,
                  spike_train |-> st, action |-> act]
    /\ result = NoResult
    /\ fs = NoFiles

\* a call is made while the heap has room for the block 'new' creates
PrepareDataCall ==
    /\ call.fn = "prepare_data"
    /\ \E r \in BlockRefs : ~heap[r].alloc
    /\ LET out == PrepareData(heap, call.old_block, call.analog_signal,
                              call.spike_train, call.action)
       IN /\ heap' = out.heap
          /\ result' = out.result
    /\ UNCHANGED <<call, fs>>

NextPrepare == PrepareDataCall

SpecPrepare == InitPrepare /\ [][NextPrepare]_vars

(***************************************************************************)
(* The saver applied to a piece of data and a path whose file may exist.   *)
(***************************************************************************)
\* the block held in memory when save_data is called: one segment
HeldBlocks == BlocksOf(1)

\* what a file that exists before the call holds: a NIX file of no or one
\* block, an NWB file of one block, or a file that is neither
StoredFiles ==
    { File("NixIO", <<>>),
      File("NixIO", <<FileBlock("a", <<LoadedSegment(0, 1, 0)>>)>>),
      File("NWBIO", <<FileBlock("a", <<LoadedSegment(0, 1, 0)>>)>>),
      File("text", <<>>) }

SaveDatas ==
    { BlockData(1), SegmentData(LoadedSegment(0 - 1, 1, 1)),
      SignalData(Series("AnalogSignal", 0 - 1, 0)),
      SignalData(Series("SpikeTrain", 0 - 1, 0)) }

OutputFormats == {NoneFormat, "NixIO", "NWBIO", "invalid", ""}

SaveActions == {"new", "replace", "update", "add", "invalid", NoneAction}

InitSave ==
    /\ \E b \in HeldBlocks : heap = [EmptyHeap EXCEPT ![1] = b]
    /\ \E d \in SaveDatas, p \in Paths, fmt \in OutputFormats, act \in SaveActions :
          /\ call = [fn |-> "save_data", data |-> d, output_file |-> p,
                     output_format |-> fmt, action |-> act]
          /\ \E file \in StoredFiles \cup {NoFile} :
                fs = [NoFiles EXCEPT !.files[p] = file]
    /\ result = NoResult

\* a call is made while the heap has room for the block a wrapping creates
\* and the file for one more block
SaveDataCall ==
    /\ call.fn = "save_data"
    /\ \E r \in BlockRefs : ~heap[r].alloc
    /\ Len(fs.files[call.output_file].blocks) < MaxFileBlocks
    /\ LET out == SaveData(heap, fs, call.data, call.output_file,
                           call.output_format, call.action)
       IN /\ heap' = out.heap
          /\ fs' = out.fs
          /\ result' = out.result
    /\ UNCHANGED call

NextSave == SaveDataCall

SpecSave == InitSave /\ [][NextSave]_vars

(***************************************************************************)
(* The loader applied to a stored file.                                    *)
(***************************************************************************)
\* the names of stored blocks: none, "a" or "b"
StoredNames == {NoName, "a", "b"}

\* the k-th block of a file (0-based) holds one segment, numbered k
StoredBlock(k, name) == FileBlock(name, <<LoadedSegment(k, 1, 1)>>)

\* the files of zero to MaxStored blocks, written as NIX or as NWB
LoadedFiles ==
    { File(format, [k \in 1..Len(names) |-> StoredBlock(k - 1, names[k])]) :
          format \in IOClasses,
          names \in UNION {[1..n -> StoredNames] : n \in 0..MaxStored} }

InputFormats == {NoneFormat, "NixIO", "NWBIO", "invalid"}

BlockIndexes == {NoneV} \cup {IntV(i) : i \in (0 - 1)..MaxStored}

BlockNames == {NoName, "a", "b", "c", ""}

InitLoad ==
    /\ heap = EmptyHeap
    /\ \E p \in Paths, fmt \in InputFormats, i \in BlockIndexes, nm \in BlockNames :
          /\ call = [fn |-> "load_data", input_file |-> p, input_format |-> fmt,
                     block_index |-> i, block_name |-> nm]
          /\ \E file \in LoadedFiles : fs = [NoFiles EXCEPT !.files[p] = file]
    /\ result = NoResult

\* a call is made while fewer than MaxOpen IO objects are open
LoadDataCall ==
    /\ call.fn = "load_data"
    /\ fs.open < MaxOpen
    /\ LET out == LoadData(fs, call.input_file, call.input_format,
                           call.block_index, call.block_name)
       IN /\ fs' = out.fs
          /\ result' = out.result
    /\ UNCHANGED <<heap, call>>

NextLoad == LoadDataCall

SpecLoad == InitLoad /\ [][NextLoad]_vars

(***************************************************************************)
(* An adapter script run from the command line.                            *)
(***************************************************************************)
InitScript ==
    /\ heap = EmptyHeap
    /\ fs = NoFiles
    /\ \E script \in Scripts :
          \E given \in SUBSET (ParserNames(script) \cup {UnknownFlag}) :
              call = [fn |-> "script", script |-> script, given |-> given]
    /\ result = NoResult

ScriptRun ==
    /\ call.fn = "script"
    /\ result' = RunScript(call.script, call.given)
    /\ UNCHANGED <<heap, call, fs>>

NextScript == ScriptRun

SpecScript == InitScript /\ [][NextScript]_vars

(***************************************************************************)
(* butterworth_filter, statement by statement.  call.at is the statement   *)
(* about to run, named by the function it calls; block and new_block are   *)
(* heap references (0 while not assigned, and 0 for the list of blocks     *)
(* load_data returns when neither selector is given), signals is the list  *)
(* select_data returned and filtered_signals the list built from it.       *)
(***************************************************************************)
\* the statement following each statement, were the filter left out
AfterSkippingFilter(at) ==
    CASE at = "load_data" -> "select_data"
      [] at = "select_data" -> "prepare_data"
      [] at = "butter" -> "prepare_data"
      [] at = "prepare_data" -> "save_data"
      [] OTHER -> "end"

\* the statement following each statement of the body
After(at) ==
    CASE at = "load_data" -> "select_data"
      [] at = "select_data" -> "butter"
      [] at = "butter" -> "prepare_data"
      [] at = "prepare_data" -> "save_data"
      [] OTHER -> "end"

\* where control is after a statement ended with r: an exception is caught
\* nowhere in the body and ends the call
Proceed(at, r) == IF r.kind = "raise" THEN "raised" ELSE After(at)

\* the heap once the block read from a file is an object in memory
Loaded(h, r) ==
    IF r.kind = "return" /\ ~r.list[1].isList
    THEN [h EXCEPT ![FreshRef(h)] = Block(r.list[1].items[1].segments)]
    ELSE h

\* the reference of that block
LoadedRef(h, r) ==
    IF r.kind = "return" /\ ~r.list[1].isList THEN FreshRef(h) ELSE 0

\* select_data(block, segment_index=..., analog_signal_index=...): a list
\* of blocks has no attribute segments
SelectSignals(h, block, segment_index, analog_signal_index) ==
    IF block = 0 /\ Branch(NoneV, analog_signal_index) # "neither"
    THEN Raised("AttributeError", "list has no attribute segments")
    ELSE SelectData(IF block = 0 THEN NoBlock ELSE h[block],
                    segment_index, NoneV, analog_signal_index)

\* lines 59-68: one filtered signal, a new object, for each selected one
FilteredSignals(signals) ==
    ListOf([k \in 1..Len(signals) |-> Series("AnalogSignal", 0 - 1, k - 1)])

\* the input files of the pipeline: a NIX file of one block whose segment
\* holds two analog signals, one of two blocks, an NWB file, and no file
PipelineFiles ==
    { File("NixIO", <<FileBlock("a", <<LoadedSegment(0, 2, 0)>>)>>),
      File("NixIO", <<StoredBlock(0, "a"), StoredBlock(1, "b")>>),
      File("NWBIO", <<StoredBlock(0, "a")>>),
      NoFile }

PipelineInputs == {Path(<<".", "n", "i", "x">>)}

PipelineOutputs == {Path(<<".", "n", "i", "x">>), Path(<<".", "n", "w", "b">>)}

PipelineIndexes == {NoneV, IntV(0), IntV(1)}

PipelineSignalIndexes == {NoneV, IntV(0), IntV(1), StrV(AllStr)}

InitPipeline ==
    /\ heap = EmptyHeap
    /\ \E p \in PipelineInputs, q \in PipelineOutputs, file \in PipelineFiles,
          i \in PipelineIndexes, nm \in {NoName, "b"},
          seg \in {IntV(0), IntV(1)}, as \in PipelineSignalIndexes,
          fmt \in {NoneFormat, "NixIO", "NWBIO"}, act \in SaveActions :
          /\ call = [fn |-> "butterworth_filter", at |-> "load_data",
                     input_file |-> p, input_format |-> NoneFormat,
                     output_file |-> q, output_format |-> fmt,
                     block_index |-> i, block_name |-> nm,
                     segment_index |-> seg, analog_signal_index |-> as,
                     action |-> act, block |-> 0, signals |-> <<>>,
                     filtered_signals |-> NoneList, new_block |-> 0]
          /\ fs = [NoFiles EXCEPT !.files[p] = file]
    /\ result = NoResult

\* lines 50-52
PipelineLoad ==
    /\ call.fn = "butterworth_filter"
    /\ call.at = "load_data"
    /\ LET out == LoadData(fs, call.input_file, call.input_format,
                           call.block_index, call.block_name)
       IN /\ fs' = out.fs
          /\ result' = out.result
          /\ heap' = Loaded(heap, out.result)
          /\ call' = [call EXCEPT !.at = Proceed(call.at, out.result),
                                  !.block = LoadedRef(heap, out.result)]

\* lines 55-56
PipelineSelect ==
    /\ call.fn = "butterworth_filter"
    /\ call.at = "select_data"
    /\ LET r == SelectSignals(heap, call.block, call.segment_index,
                              call.analog_signal_index)
       IN /\ result' = r
          /\ call' = [call EXCEPT !.at = Proceed(call.at, r), !.signals = r.list]
    /\ UNCHANGED <<heap, fs>>

\* lines 59-68
PipelineFilter ==
    /\ call.fn = "butterworth_filter"
    /\ call.at = "butter"
    /\ LET r == Returned(Ones(FilteredSignals(call.signals).items))
       IN /\ result' = r
          /\ call' = [call EXCEPT !.at = Proceed(call.at, r),
                                  !.filtered_signals = FilteredSignals(call.signals)]
    /\ UNCHANGED <<heap, fs>>

\* lines 71-72
PipelinePrepare ==
    /\ call.fn = "butterworth_filter"
    /\ call.at = "prepare_data"
    /\ LET out == PrepareData(heap, call.block, call.filtered_signals,
                              NoneList, call.action)
       IN /\ heap' = out.heap
          /\ result' = out.result
          /\ call' = [call EXCEPT !.at = Proceed(call.at, out.result),
                                  !.new_block = out.result.ref]
    /\ UNCHANGED fs

\* lines 75-76
PipelineSave ==
    /\ call.fn = "butterworth_filter"
    /\ call.at = "save_data"
    /\ LET out == SaveData(heap, fs, BlockData(call.new_block), call.output_file,
                           call.output_format, call.action)
       IN /\ heap' = out.heap
          /\ fs' = out.fs
          /\ result' = out.result
          /\ call' = [call EXCEPT !.at = Proceed(call.at, out.result)]

NextPipeline ==
    \/ PipelineLoad
    \/ PipelineSelect
    \/ PipelineFilter
    \/ PipelinePrepare
    \/ PipelineSave

SpecPipeline == InitPipeline /\ [][NextPipeline]_vars

(***************************************************************************)
(* Properties of _parse_slice (under SpecParse).                           *)
(***************************************************************************)
\* a list of n elements, each named by its 0-based position
Positions(n) == [k \in 1..n |-> k - 1]

\* the parser has been applied to the token of the call
Parsed == call.fn = "_parse_slice" /\ result.kind # "none"

C2_AllSelectsEverything ==
    (Parsed /\ call.slice_str = StrV(AllStr)) =>
        /\ result.kind = "return"
        /\ result.parsed = ParsedSlice(<<>>, <<>>, <<>>)
        /\ \A n \in 0..MaxLen :
              PyGetItem(Positions(n), result.parsed) = Got("list", Positions(n))

\* "all" has been parsed, to a slice
C2_Witness ==
    /\ Parsed
    /\ call.slice_str = StrV(AllStr)
    /\ result.parsed.k = "slice"
    /\ Len(PyGetItem(Positions(MaxLen), result.parsed).items) = MaxLen

\* C4: every string token with a component that is non-empty and not an
\* integer literal, whatever its position and however many components the
\* token has, fails with the ValueError "Invalid slice string".
C4_EveryBadComponentRejected ==
    (Parsed /\ call.slice_str.t = "str" /\ call.slice_str.s # AllStr) =>
        LET parts == Split(call.slice_str.s)
        IN (\E k \in 1..Len(parts) : parts[k] # <<>> /\ ~PyIntOk(parts[k])) =>
               result = Raised("ValueError", "Invalid slice string")

(***************************************************************************)
(* Properties of select_data (under SpecSelect).  What a selector names is *)
(* stated here from the token syntax, not through the parser.              *)
(***************************************************************************)
\* select_data has been applied to the arguments of the call
Selected == call.fn = "select_data" /\ result.kind # "none"

TheSegments == heap[call.block].segments

GivenSpike == call.spike_train_index.t # "none"

GivenAnalog == call.analog_signal_index.t # "none"

ExactlyOneGiven == GivenSpike # GivenAnalog

\* the series selector of a call that gives exactly one, and its list in a segment
TheSelector ==
    IF GivenSpike THEN call.spike_train_index ELSE call.analog_signal_index

TheSeries(segment) ==
    IF GivenSpike THEN segment.spiketrains ELSE segment.analogsignals

IsRange(tok) == \E a, b \in 0..MaxSeries : tok = RangeToken(a, b)

RangeLow(tok) == CHOOSE a \in 0..MaxSeries : \E b \in 0..MaxSeries : tok = RangeToken(a, b)

RangeHigh(tok) == CHOOSE b \in 0..MaxSeries : \E a \in 0..MaxSeries : tok = RangeToken(a, b)

IsAll(tok) == tok = StrV(AllStr)

\* an int that indexes a list of n elements, counting from the end when negative
ValidInt(tok, n) == tok.t = "int" /\ tok.i >= 0 - n /\ tok.i < n

\* the selector names elements of any list: an int in range, a range, "all"
Resolves(tok, n) == ValidInt(tok, n) \/ IsRange(tok) \/ IsAll(tok)

\* the elements of list a resolving selector names, in order
Named(list, tok) ==
    LET n == Len(list)
        low == IF IsAll(tok) THEN 0 ELSE RangeLow(tok)
        high == IF IsAll(tok) \/ RangeHigh(tok) > n - 1 THEN n - 1 ELSE RangeHigh(tok)
    IN IF tok.t = "int" THEN <<list[(IF tok.i < 0 THEN tok.i + n ELSE tok.i) + 1]>>
       ELSE IF high < low THEN <<>>
       ELSE [k \in 1..(high - low + 1) |-> list[low + k]]

\* the selected series of each selected segment, one after the other
RECURSIVE Concatenation(_)
Concatenation(segments) ==
    IF segments = <<>> THEN <<>>
    ELSE Named(TheSeries(Head(segments)), TheSelector)
             \o Concatenation(Tail(segments))

\* the selector is a range whose stop lies before its start
Reversed(tok) ==
    \E a, b \in 0..MaxSeries : b + 1 <= a /\ tok = RangeToken(a, b)

\* C3: a range token "a:b" with b + 1 <= a selects an empty list, and
\* select_data then returns an empty list rather than raising: as the
\* segment selector, and as the series selector of segments that resolve.
C3_ReversedRangeReturnsEmpty ==
    Selected =>
        /\ (Reversed(call.segment_index) /\ (GivenSpike \/ GivenAnalog))
               => result = Returned(<<>>)
        /\ (/\ ExactlyOneGiven
            /\ Resolves(call.segment_index, Len(TheSegments))
            /\ Reversed(TheSelector))
               => result = Returned(<<>>)

TheSegment ==
    TheSegments[(IF call.segment_index.i < 0
                 THEN call.segment_index.i + Len(TheSegments)
                 ELSE call.segment_index.i) + 1]

\* C6: for a valid integer segment_index and a valid integer series index,
\* select_data returns a list of exactly one element, the object
\* block.segments[segment_index].<series>[index], never the bare object.
C6_SingleIndexGivesListOfOne ==
    (/\ Selected
     /\ ExactlyOneGiven
     /\ ValidInt(call.segment_index, Len(TheSegments))
     /\ ValidInt(TheSelector, Len(TheSeries(TheSegment)))) =>
        /\ result.kind = "return"
        /\ Len(result.list) = 1
        /\ result.list[1] = One(Named(TheSeries(TheSegment), TheSelector)[1])
        /\ result.list[1].items[1].kind
              = (IF GivenSpike THEN "SpikeTrain" ELSE "AnalogSignal")

\* segment 1, analog signal 1 of a block of two segments was selected
C6_Witness ==
    /\ Selected
    /\ call.segment_index = IntV(1)
    /\ call.analog_signal_index = IntV(1)
    /\ ~GivenSpike
    /\ result = Returned(<<One(Series("AnalogSignal", 1, 1))>>)

\* the segments a resolving segment selector names
SelectedSegments == Named(TheSegments, call.segment_index)

\* the series selector names elements of the series list of every selected
\* segment
SelectorResolvesEverywhere ==
    \A k \in 1..Len(SelectedSegments) :
        Resolves(TheSelector, Len(TheSeries(SelectedSegments[k])))

\* C7: for every combination of segment selector (integer or range) and
\* series selector (integer or range), select_data returns a flat list of
\* objects, never nested lists: the concatenation, in segment order, of the
\* series selected within each selected segment.
C7_FlatConcatenation ==
    (/\ Selected
     /\ ExactlyOneGiven
     /\ Resolves(call.segment_index, Len(TheSegments))
     /\ SelectorResolvesEverywhere) =>
        /\ result.kind = "return"
        /\ \A k \in 1..Len(result.list) : ~result.list[k].isList
        /\ result.list = Ones(Concatenation(SelectedSegments))

\* C8: select_data raises ValueError, and returns no partial list, whenever
\* an integer segment_index is >= the number of segments, or an integer
\* series index is >= the length of the series list of any selected
\* segment, also when it is valid in an earlier selected segment.
C8_OutOfRangeRaises ==
    Selected =>
        /\ (call.segment_index.t = "int" /\ call.segment_index.i >= Len(TheSegments))
               => (result.kind = "raise" /\ result.exc = "ValueError"
                   /\ result.list = <<>>)
        /\ (/\ ExactlyOneGiven
            /\ Resolves(call.segment_index, Len(TheSegments))
            /\ TheSelector.t = "int"
            /\ \E k \in 1..Len(SelectedSegments) :
                  TheSelector.i >= Len(TheSeries(SelectedSegments[k])))
               => (result.kind = "raise" /\ result.exc = "ValueError"
                   /\ result.list = <<>>)

\* analog signal 1 was asked of two segments, the first holding two signals
\* and the second one signal, and the call raised
C8_Witness ==
    /\ Selected
    /\ call.segment_index = RangeToken(0, 1)
    /\ call.analog_signal_index = IntV(1)
    /\ ~GivenSpike
    /\ Len(TheSegments) = 2
    /\ Len(TheSegments[1].analogsignals) = 2
    /\ Len(TheSegments[2].analogsignals) = 1
    /\ result.kind = "raise"

\* C9: the error names the dimension that failed: "segment_index" for an
\* integer segment index out of range, "analog_signal_index" or
\* "spike_train_index" for an integer series index out of range within an
\* existing segment, which is never reported as a segment_index failure.
C9_ErrorNamesTheDimension ==
    (Selected /\ ExactlyOneGiven) =>
        /\ (call.segment_index.t = "int"
                /\ ~ValidInt(call.segment_index, Len(TheSegments)))
               => result = Raised("ValueError",
                                  "Provided segment_index is out of range")
        /\ (/\ ValidInt(call.segment_index, Len(TheSegments))
            /\ TheSelector.t = "int"
            /\ ~ValidInt(TheSelector, Len(TheSeries(TheSegment))))
               => result = Raised("ValueError",
                      IF GivenSpike
                      THEN "Provided spike_train_index is out of range"
                      ELSE "Provided analog_signal_index is out of range")

(***************************************************************************)
(* Properties of prepare_data (under SpecPrepare).                         *)
(***************************************************************************)
\* the arguments of the call fail one of the two checks of lines 402-407
InvalidAction == call.action \notin {"new", "replace", "add"}

NoData ==
    /\ call.analog_signal.isNone \/ call.analog_signal.items = <<>>
    /\ call.spike_train.isNone \/ call.spike_train.items = <<>>

\* C10: when action is not 'new', 'replace' or 'add' (None included), and
\* when analog_signal and spike_train are both None or empty, prepare_data
\* raises ValueError, returns no block, and creates or modifies no block:
\* old_block and the rest of the heap are as they were before the call.
C10_RejectedBeforeAnyChange ==
    [][(call.fn = "prepare_data" /\ (InvalidAction \/ NoData)) =>
          /\ result'.kind = "raise"
          /\ result'.exc = "ValueError"
          /\ result'.ref = 0
          /\ heap' = heap]_vars

\* a call with action 'replace' on a loaded block of two segments, given no
\* data, has raised ValueError
C10_Witness ==
    /\ call.fn = "prepare_data"
    /\ call.action = "replace"
    /\ call.old_block = 1
    /\ NoData
    /\ call.analog_signal = ListOf(<<>>)
    /\ result.kind = "raise"
    /\ result.exc = "ValueError"
    /\ Len(heap[1].segments) = 2

\* the items of an optional list, none for None
ItemsOf(l) == IF l.isNone THEN <<>> ELSE l.items

\* the call supplies data and has one of the three actions
DataGiven == ~NoData

\* C11: with action 'new' and non-empty data, prepare_data returns a block
\* that is not old_block, with exactly one segment that holds exactly the
\* supplied analog signals and spike trains in the order given; old_block
\* (None or a block) is ignored: every block that existed before the call,
\* old_block included, has the segments and series it had.
C11_NewBuildsFreshBlock ==
    [][(call.fn = "prepare_data" /\ call.action = "new" /\ DataGiven) =>
          /\ result'.kind = "return"
          /\ result'.ref \in BlockRefs
          /\ result'.ref # call.old_block
          /\ ~heap[result'.ref].alloc
          /\ heap'[result'.ref].segments
                 = <<Segment(ItemsOf(call.analog_signal),
                             ItemsOf(call.spike_train))>>
          /\ \A r \in BlockRefs : heap[r].alloc => heap'[r] = heap[r]]_vars

\* 'new' was called with a loaded block of two segments, two analog signals
\* and a spike train, and returned a second block of one segment
C11_Witness ==
    /\ call.fn = "prepare_data"
    /\ call.action = "new"
    /\ call.old_block = 1
    /\ Len(call.analog_signal.items) = 2
    /\ Len(call.spike_train.items) = 1
    /\ result.kind = "return"
    /\ result.ref = 2
    /\ Len(heap[2].segments) = 1
    /\ Len(heap[1].segments) = 2

\* the call names a loaded block as old_block and supplies data
OnLoadedBlock(action) ==
    /\ call.fn = "prepare_data"
    /\ call.action = action
    /\ call.old_block # 0
    /\ DataGiven

\* s is a prefix of t
IsPrefix(s, t) == Len(s) <= Len(t) /\ SubSeq(t, 1, Len(s)) = s

\* C12: with action 'replace', a non-null old_block and non-empty data,
\* prepare_data succeeds: it returns old_block itself, which after the call
\* has exactly one segment holding exactly the supplied analog signals and
\* spike trains, its previous segments discarded.
C12_ReplaceSucceeds ==
    [][OnLoadedBlock("replace") =>
          /\ result'.kind = "return"
          /\ result'.ref = call.old_block
          /\ heap'[call.old_block].segments
                 = <<Segment(ItemsOf(call.analog_signal),
                             ItemsOf(call.spike_train))>>]_vars

\* C13: with action 'add', a non-null old_block and non-empty data,
\* prepare_data succeeds: it returns old_block, every segment of which is
\* retained with the series it had, the supplied analog signals and spike
\* trains appended to the series of its segments.
C13_AddAppends ==
    [][OnLoadedBlock("add") =>
          /\ result'.kind = "return"
          /\ result'.ref = call.old_block
          /\ LET before == heap[call.old_block].segments
                 after == heap'[call.old_block].segments
             IN /\ Len(after) >= Len(before)
                /\ \A k \in 1..Len(before) :
                      /\ IsPrefix(before[k].analogsignals, after[k].analogsignals)
                      /\ IsPrefix(before[k].spiketrains, after[k].spiketrains)
                /\ \A i \in 1..Len(ItemsOf(call.analog_signal)) :
                      \E k \in 1..Len(after) :
                          \E j \in 1..Len(after[k].analogsignals) :
                              after[k].analogsignals[j] = call.analog_signal.items[i]
                /\ \A i \in 1..Len(ItemsOf(call.spike_train)) :
                      \E k \in 1..Len(after) :
                          \E j \in 1..Len(after[k].spiketrains) :
                              after[k].spiketrains[j] = call.spike_train.items[i]]_vars

\* C14: a prepare_data call that raises, whatever its action and arguments,
\* leaves old_block as it was: the same segment list, each segment with the
\* same analog signals and spike trains.
C14_FailureLeavesOldBlock ==
    [][(call.fn = "prepare_data" /\ call.old_block # 0
            /\ result'.kind = "raise") =>
          heap'[call.old_block] = heap[call.old_block]]_vars

(***************************************************************************)
(* Properties of save_data (under SpecSave).                               *)
(***************************************************************************)
\* the file at the path of the call, before and after a step
Target == fs.files[call.output_file]

TargetAfter == fs'.files[call.output_file]

\* the suffix of the path names the format, in any case of its letters
SuffixNames(format) ==
    \/ format = "NixIO" /\ Lower(call.output_file.suffix) = <<".", "n", "i", "x">>
    \/ format = "NWBIO" /\ Lower(call.output_file.suffix) = <<".", "n", "w", "b">>

\* C15: save_data enforces the existence rule before writing: 'new' raises
\* ValueError when the output file exists, 'replace' and 'update' raise
\* ValueError when it does not, and such a call leaves the file system as it
\* was; every call that is accepted and returns leaves the file existing.
C15_ExistenceRuleEnforced ==
    [][call.fn = "save_data" =>
          /\ (\/ call.action = "new" /\ Target.exists
              \/ call.action \in {"replace", "update"} /\ ~Target.exists)
                 => /\ result'.kind = "raise"
                    /\ result'.exc = "ValueError"
                    /\ fs' = fs
          /\ result'.kind = "return" => TargetAfter.exists]_vars

\* C16: save_data raises ValueError, and neither creates nor changes any
\* file, when action is not 'new', 'replace' or 'update' (None included),
\* when output_format is given and is neither 'NixIO' nor 'NWBIO', and when
\* output_format is None and the suffix is neither .nix nor .nwb.
C16_InvalidOptionsRejected ==
    [][(/\ call.fn = "save_data"
        /\ \/ call.action \notin {"new", "replace", "update"}
           \/ call.output_format \notin {NoneFormat, "NixIO", "NWBIO"}
           \/ /\ call.output_format = NoneFormat
              /\ ~SuffixNames("NixIO")
              /\ ~SuffixNames("NWBIO")) =>
          /\ result'.kind = "raise"
          /\ result'.exc = "ValueError"
          /\ fs' = fs]_vars

\* C17: a call that writes does so in the explicitly given valid
\* output_format whatever the suffix is, and with output_format None in the
\* format the suffix names, compared without regard to case; and a call
\* whose explicit format is the one the suffix names ends exactly as the
\* same call with output_format None: same result, same files, same heap.
C17_WriterChoice ==
    [][call.fn = "save_data" =>
          /\ (result'.kind = "return" /\ call.output_format \in {"NixIO", "NWBIO"})
                 => TargetAfter.format = call.output_format
          /\ (result'.kind = "return" /\ call.output_format = NoneFormat)
                 => SuffixNames(TargetAfter.format)
          /\ (call.output_format \in {"NixIO", "NWBIO"}
                 /\ SuffixNames(call.output_format))
                 => SaveOutcome(heap', fs', result')
                        = SaveData(heap, fs, call.data, call.output_file,
                                   NoneFormat, call.action)]_vars

\* a block was saved to out.NIX with no format given, and the file is a NIX
\* file holding that one block
C17_Witness ==
    /\ call.fn = "save_data"
    /\ call.output_format = NoneFormat
    /\ call.output_file = Path(<<".", "N", "I", "X">>)
    /\ call.action = "new"
    /\ call.data = BlockData(1)
    /\ result.kind = "return"
    /\ fs.files[call.output_file] = File("NixIO", <<FileBlock(NoName, heap[1].segments)>>)

(***************************************************************************)
(* Properties of load_data (under SpecLoad).                               *)
(***************************************************************************)
\* the file the call reads, and the blocks stored in it
Input == fs.files[call.input_file]

\* the call gives a block index, a block name
IndexGiven == call.block_index.t = "int"

NameGiven == call.block_name # NoName

\* the positions (from 1) of the stored blocks that have the name of the call
Matches == {k \in 1..Len(Input.blocks) : Input.blocks[k].name = call.block_name}

\* the file was written in the format the call reads it in: the format given
\* or, with none given, the format its suffix names
Readable ==
    \/ call.input_format = Input.format
    \/ /\ call.input_format = NoneFormat
       /\ \/ Input.format = "NixIO"
             /\ Lower(call.input_file.suffix) = <<".", "n", "i", "x">>
          \/ Input.format = "NWBIO"
             /\ Lower(call.input_file.suffix) = <<".", "n", "w", "b">>

RaisesValueError == result'.kind = "raise" /\ result'.exc = "ValueError"

\* C18: load_data raises ValueError, and returns no block, whenever both
\* block_index and block_name are given, whatever the index (0 included) and
\* whatever the name (stated here for the calls that read the file in the
\* format it was written in, where no other error can hide the selectors).
C18_BothSelectorsRejected ==
    [][(call.fn = "load_data" /\ Readable /\ IndexGiven /\ NameGiven) =>
          RaisesValueError]_vars

\* C19: load_data raises ValueError when block_index is at least the number
\* of blocks of the file, when block_name is the name of no block of the
\* file (both stated here for the calls that read the file in the format it
\* was written in), when input_format is not the name of an IO class, and
\* when no input_format is given and the file name lets none be detected.
C19_NotFoundRaisesValueError ==
    [][call.fn = "load_data" =>
          /\ (Readable /\ IndexGiven /\ call.block_index.i >= Len(Input.blocks))
                 => RaisesValueError
          /\ (Readable /\ NameGiven /\ Matches = {}) => RaisesValueError
          /\ call.input_format \notin {NoneFormat, "NixIO", "NWBIO"}
                 => RaisesValueError
          /\ (/\ call.input_format = NoneFormat
              /\ Lower(call.input_file.suffix) \notin
                     {<<".", "n", "i", "x">>, <<".", "n", "w", "b">>})
                 => RaisesValueError]_vars

C21_HandlesClosedOnExit ==
    [][call.fn \in {"load_data", "save_data"} => fs'.open = fs.open]_vars

(***************************************************************************)
(* Properties of the adapter scripts (under SpecScript).                   *)
(***************************************************************************)
\* C22: for each adapter script the argument names its parser produces are
\* the parameter names of the function they are unpacked into, so a run
\* that gives every required flag reaches the function body; and a flag the
\* parser does not know is ignored: the run ends as it does without it.
C22_ParserMirrorsSignature ==
    [][call.fn = "script" =>
          /\ RequiredNames(call.script) \subseteq call.given
                 => /\ ParserNames(call.script) = FunctionParams(call.script)
                    /\ result'.kind = "reached"
          /\ result' = RunScript(call.script, call.given \ {UnknownFlag})]_vars

Overshoots(tok, n) == IsRange(tok) /\ RangeLow(tok) < n /\ n <= RangeHigh(tok)

\* the call with its series selector replaced by tok, with its segment
\* selector replaced by tok
WithSeries(tok) ==
    SelectData(heap[call.block], call.segment_index,
               IF GivenSpike THEN tok ELSE NoneV,
               IF GivenSpike THEN NoneV ELSE tok)

WithSegments(tok) ==
    SelectData(heap[call.block], tok, call.spike_train_index,
               call.analog_signal_index)

\* C24: a range whose inclusive upper bound exceeds the sequence saturates
\* instead of failing.  With segment_index an integer and a segment of N
\* analog signals, the range "a:b" with 0 <= a < N <= b returns the signals
\* at positions a..N-1 and raises nothing; for either kind of series the call
\* ends exactly as the call with "a:N-1"; and a segment range "a:b" over M
\* segments, a < M <= b, ends exactly as the call with "a:M-1".
C24_RangeSaturates ==
    Selected =>
        /\ (ExactlyOneGiven /\ ValidInt(call.segment_index, Len(TheSegments))) =>
              LET series == TheSeries(Named(TheSegments, call.segment_index)[1])
                  n == Len(series)
                  a == RangeLow(TheSelector)
              IN Overshoots(TheSelector, n) =>
                    /\ result.kind = "return"
                    /\ result = WithSeries(RangeToken(a, n - 1))
                    /\ GivenAnalog =>
                          result.list = [k \in 1..(n - a) |-> One(series[a + k])]
        /\ Overshoots(call.segment_index, Len(TheSegments)) =>
              result = WithSegments(RangeToken(RangeLow(call.segment_index),
                                               Len(TheSegments) - 1))

\* "0:2" was given for a segment of one analog signal, which was returned
C24_Witness ==
    /\ Selected
    /\ call.segment_index = IntV(0)
    /\ call.analog_signal_index = RangeToken(0, MaxSeries)
    /\ call.spike_train_index = NoneV
    /\ Len(TheSegments) >= 1
    /\ Len(TheSegments[1].analogsignals) = 1
    /\ result.kind = "return"
    /\ result.list = <<One(Series("AnalogSignal", 0, 0))>>

(***************************************************************************)
(* More properties of _parse_slice (under SpecParse).                      *)
(***************************************************************************)
\* the token "a:b:s"
StrideToken(a, b, s) ==
    StrV(StrOfInt(a) \o <<":">> \o StrOfInt(b) \o <<":">> \o StrOfInt(s))

\* the steps of the generated tokens that are not zero
Strides == {0 - 1, 1, 2}

\* the elements of a sequence
Elements(seq) == {seq[k] : k \in 1..Len(seq)}

\* C25: for every token "a:b:s" with bounds inside the list and a step s
\* that is not zero, positive or negative, the stop is inclusive: position b
\* is selected whenever whole strides of s lead from a to b, and nothing
\* beyond b in the direction of travel is selected.
C25_StrideStopInclusive ==
    Parsed =>
        \A n \in 1..MaxLen : \A a, b \in 0..(n - 1) : \A s \in Strides :
            call.slice_str = StrideToken(a, b, s) =>
                /\ result.kind = "return"
                /\ LET sel == Elements(PyGetItem(Positions(n), result.parsed).items)
                   IN /\ (\E k \in 0..MaxLen : a + k * s = b) => b \in sel
                      /\ \A x \in sel : IF s > 0 THEN x <= b ELSE x >= b

\* positions low..high of a list, none when high < low
Span(low, high) == [k \in 1..(IF high < low THEN 0 ELSE high - low + 1) |-> low + k - 1]

\* what the parsed token selects from a list of n elements
Selection(n) == PyGetItem(Positions(n), result.parsed)

C27_IntegerPassesThrough ==
    Parsed /\ call.slice_str.t = "int" =>
        /\ result.kind = "return"
        /\ result.parsed.k = "int"
        /\ result.parsed.i = call.slice_str.i
        /\ heap = EmptyHeap
        /\ fs = NoFiles
        /\ \A n \in 0..MaxLen :
              ValidInt(call.slice_str, n) =>
                  Selection(n) =
                      Got("item", <<IF call.slice_str.i < 0
                                    THEN call.slice_str.i + n
                                    ELSE call.slice_str.i>>)

\* the int 2 has been parsed and addresses the last of three elements
C27_Witness ==
    /\ Parsed
    /\ call.slice_str = IntV(2)
    /\ result.kind = "return"
    /\ result.parsed.k = "int"
    /\ Selection(3) = Got("item", <<2>>)


\* 'new' has returned a block for the data of the call
NewReturned ==
    /\ call.fn = "prepare_data"
    /\ call.action = "new"
    /\ result.kind = "return"

\* list holds, position by position, the very objects of given, all of kind
SameObjects(list, given, kind) ==
    /\ Len(list) = Len(given)
    /\ \A k \in 1..Len(given) : list[k] = given[k] /\ list[k].kind = kind

\* C28: with action 'new' prepare_data copies nothing: each element of the
\* single segment of the new block is the identical object the caller passed
\* in, at the same position, the analog signals in the segment's analogsignals
\* and the spike trains in its spiketrains.
C28_NewReferencesData ==
    NewReturned =>
        /\ Len(heap[result.ref].segments) = 1
        /\ SameObjects(heap[result.ref].segments[1].analogsignals,
                       ItemsOf(call.analog_signal), "AnalogSignal")
        /\ SameObjects(heap[result.ref].segments[1].spiketrains,
                       ItemsOf(call.spike_train), "SpikeTrain")

\* 'new' has returned a block whose segment holds the two analog signals and
\* the two spike trains of the call
C28_Witness ==
    /\ NewReturned
    /\ Len(call.analog_signal.items) = 2
    /\ Len(call.spike_train.items) = 2
    /\ heap[result.ref].segments[1].analogsignals[2] = call.analog_signal.items[2]
    /\ heap[result.ref].segments[1].spiketrains[1] = call.spike_train.items[1]


\* the call has passed its checks, written with a writer and returned
Written ==
    /\ call.fn = "save_data"
    /\ result'.kind = "return"
    /\ call.output_format # ""

\* the blocks the call creates
CreatedBlocks == {r \in BlockRefs : ~heap[r].alloc /\ heap'[r].alloc}

\* the block the call adds to the file
LastWritten == TargetAfter.blocks[Len(TargetAfter.blocks)]

\* the call creates one block, of the one segment, and writes that block
WritesWrapped(segment) ==
    /\ \E r \in BlockRefs :
          /\ CreatedBlocks = {r}
          /\ heap'[r] = Block(<<segment>>)
    /\ LastWritten = FileBlock(NoName, <<segment>>)

Order == <<"load_data", "select_data", "butter", "prepare_data", "save_data", "end">>

InvalidActionError == Raised("ValueError", "Invalid action")

\* the action of the call is one the check of prepare_data lets through
PassesPrepare ==
    PrepareData(heap, call.block, call.filtered_signals, NoneList,
                call.action).result # InvalidActionError

\* the action of the call is one the check of save_data lets through
PassesSave ==
    SaveData(heap, fs, BlockData(call.block), call.output_file,
             call.output_format, call.action).result # InvalidActionError

\* C30: the pipeline calls load_data, select_data, the filter, prepare_data
\* and save_data in this order, a raise ending it; the one action value of
\* the call is what prepare_data and then save_data are given; the value
\* passes the action check of both exactly when it is 'new' or 'replace',
\* 'add' being rejected by save_data and 'update' by prepare_data; and
\* save_data is not reached when prepare_data raises.
C30_OneActionThroughPipeline ==
    [][call.fn = "butterworth_filter" =>
          /\ \E k \in 1..5 :
                /\ call.at = Order[k]
                /\ call'.at \in {Order[k + 1], "raised"}
          /\ call'.action = call.action
          /\ result'.kind = "raise" <=> call'.at = "raised"
          /\ call.at = "prepare_data" =>
                /\ Outcome(heap', result')
                       = PrepareData(heap, call.block, call.filtered_signals,
                                     NoneList, call.action)
                /\ (PassesPrepare /\ PassesSave) <=> call.action \in {"new", "replace"}
                /\ call.action = "add" => PassesPrepare /\ ~PassesSave
                /\ call.action = "update" => ~PassesPrepare /\ PassesSave
                /\ result'.kind = "raise" => call'.at # "save_data"
          /\ call.at = "save_data" =>
                SaveOutcome(heap', fs', result')
                    = SaveData(heap, fs, BlockData(call.new_block),
                               call.output_file, call.output_format,
                               call.action)]_vars

\* the pipeline has run to its end with action 'new': the output file holds
\* one block whose segment holds the two filtered signals
C30_Witness ==
    /\ call.fn = "butterworth_filter"
    /\ call.at = "end"
    /\ call.action = "new"
    /\ call.new_block = 2
    /\ Len(call.filtered_signals.items) = 2
    /\ Target.blocks
           = <<FileBlock(NoName, <<Segment(call.filtered_signals.items, <<>>)>>)>>

====
